---- MODULE Spec2Model ----
(***************************************************************************)
(* Model of the clp crate: the expression trees of src/expressions/, the   *)
(* free-variable analysis (get_free), the domain sampler (sample), and the *)
(* solver entry points of src/solver.rs (generate_attempt, apply, reduce,  *)
(* free_variables, solve).                                                 *)
(*                                                                         *)
(* An expression node is a record [ty, op, ...]: ty is the Rust enum, op   *)
(* the variant, and the remaining fields the variant's payload: a and b    *)
(* for boxed sub-expressions, sym for a Symbol, val for a value, elts for  *)
(* the Vec of an ExplicitSet.                                              *)
(***************************************************************************)
EXTENDS Integers, Sequences, FiniteSets, TLC

VARIABLES
    program,            \* p: the ConstraintProgramExpression under analysis
    pc,                 \* position of the caller in the pipeline
    free,               \* free_variables(&p)
    attempt,            \* outcome of generate_attempt
    state,              \* the Vec<Assignment> handed to apply
    update_program,     \* apply(p, state)
    free_after_apply,   \* free_variables(&update_program)
    covered,            \* value returned by a_solution_covers_all_free_variables
    reduced,            \* reduce(p)
    reduced_again,      \* reduce(reduce(p))
    solutions,          \* solve(p)
    call                \* last direct call of sample / generate_attempt

vars == <<program, pc, free, attempt, state, update_program, free_after_apply,
          covered, reduced, reduced_again, solutions, call>>

(***************************************************************************)
(* Bounds of the model.                                                    *)
(***************************************************************************)
MaxInt == 1         \* integer literals are Value(0) .. Value(MaxInt)
MaxSetLen == 2      \* longest ExplicitSet
MaxVars == 2        \* longest Vec<Variable> given to generate_attempt directly

(***************************************************************************)
(* Values.                                                                 *)
(***************************************************************************)
Symbols == {"a_0", "b_1"}

BooleanValue == {"False", "True"}

NaN == [op |-> "NaN"]
Value(i) == [op |-> "Value", n |-> i]
IntegerNumber == {NaN} \cup {Value(i) : i \in 0..MaxInt}

AssignedValue_Boolean(v) == [op |-> "Boolean", val |-> v]
AssignedValue_Integer(v) == [op |-> "Integer", val |-> v]
AssignedValue ==
    {AssignedValue_Boolean(v) : v \in BooleanValue}
        \cup {AssignedValue_Integer(v) : v \in IntegerNumber}

\* Option<T> and the abort of unimplemented!()
\* Solution (solver.rs): what solve reports for one symbol.
Solution_Unsatisfiable(s, reason) == [op |-> "Unsatisfiable", sym |-> s, reason |-> reason]
Solution_Variable(s, v) == [op |-> "Variable", sym |-> s, value |-> v]
Solution_Constant(s, v) == [op |-> "Constant", sym |-> s, value |-> v]

None == [op |-> "None"]
Some(v) == [op |-> "Some", val |-> v]
Panic == [op |-> "Panic", msg |-> "not implemented"]

\* A record-valued variable that no call has set yet. (The Vec-valued ones
\* start as the empty Vec and are read only once pc says they are set.)
NotCalled == [op |-> "NotCalled"]

(***************************************************************************)
(* Expression nodes.                                                       *)
(***************************************************************************)
BoolT == "BooleanExpression"
IntT == "IntegerNumberExpression"
IntDomT == "IntegerNumberDomainExpression"
BoolDomT == "BooleanValueDomainExpression"
BoolIntT == "BooleanIntegerNumberExpression"
LogicT == "ConstraintLogicExpression"
SatT == "SatisfactionExpression"
ProgT == "ConstraintProgramExpression"

Node0(ty, op) == [ty |-> ty, op |-> op]
Node1(ty, op, x) == [ty |-> ty, op |-> op, a |-> x]
Node2(ty, op, x, y) == [ty |-> ty, op |-> op, a |-> x, b |-> y]
VarLeaf(ty, op, s) == [ty |-> ty, op |-> op, sym |-> s]
ValLeaf(ty, op, v) == [ty |-> ty, op |-> op, val |-> v]
ExplicitSet(es) == [ty |-> IntDomT, op |-> "ExplicitSet", elts |-> es]

BooleanVariable(s) == VarLeaf(BoolT, "BooleanVariable", s)
IntegerNumberVariable(s) == VarLeaf(IntT, "IntegerNumberVariable", s)

Domain_Boolean(d) == [op |-> "Boolean", dom |-> d]
Domain_Integer(d) == [op |-> "Integer", dom |-> d]
Variable(s, d) == [name |-> s, domain |-> d]
Assignment(s, v) == [name |-> s, value |-> v]

(***************************************************************************)
(* FreeVariable::get_free, one operator per impl.                          *)
(***************************************************************************)
BooleanValueDomainExpression_Universe == Node0(BoolDomT, "Universe")
IntegerNumberDomainExpression_Universe == Node0(IntDomT, "Universe")

RECURSIVE BooleanExpression_get_free(_)
\* Variant of BooleanExpression_get_free that visits the right operand of a
\* binary connective before the left one.
BooleanExpression_get_free_right_first(e) ==
    CASE e.op = "BooleanVariable" ->
            <<Variable(e.sym, Domain_Boolean(BooleanValueDomainExpression_Universe))>>
      [] e.op \in {"Not", "Parenthesis"} -> BooleanExpression_get_free(e.a)
      [] e.op \in {"And", "Or", "Implies", "Equals"} ->
            BooleanExpression_get_free(e.b) \o BooleanExpression_get_free(e.a)
      [] e.op = "BooleanValue" -> <<>>

\* Variant of BooleanExpression_get_free that declares its variables over the
\* Empty domain.
BooleanExpression_get_free_empty_domain(e) ==
    CASE e.op = "BooleanVariable" ->
            <<Variable(e.sym, Domain_Boolean(Node0(BoolDomT, "Empty")))>>
      [] e.op \in {"Not", "Parenthesis"} -> BooleanExpression_get_free(e.a)
      [] e.op \in {"And", "Or", "Implies", "Equals"} ->
            BooleanExpression_get_free(e.a) \o BooleanExpression_get_free(e.b)
      [] e.op = "BooleanValue" -> <<>>

BooleanExpression_get_free(e) ==
    CASE e.op = "BooleanVariable" ->
            <<Variable(e.sym, Domain_Boolean(BooleanValueDomainExpression_Universe))>>
      [] e.op \in {"Not", "Parenthesis"} -> BooleanExpression_get_free(e.a)
      [] e.op \in {"And", "Or", "Implies", "Equals"} ->
            BooleanExpression_get_free(e.a) \o BooleanExpression_get_free(e.b)
      [] e.op = "BooleanValue" -> <<>>

RECURSIVE IntegerNumberExpression_get_free(_)
\* Variant of IntegerNumberExpression_get_free that declares its variables
\* over the boolean Universe.
IntegerNumberExpression_get_free_boolean_domain(e) ==
    CASE e.op = "IntegerNumberValue" -> <<>>
      [] e.op = "IntegerNumberVariable" ->
            <<Variable(e.sym, Domain_Boolean(BooleanValueDomainExpression_Universe))>>
      [] e.op \in {"Parenthesis", "Negate"} -> IntegerNumberExpression_get_free(e.a)
      [] e.op \in {"Add", "Minus", "Times", "Divide", "Modulo"} ->
            IntegerNumberExpression_get_free(e.a) \o IntegerNumberExpression_get_free(e.b)

IntegerNumberExpression_get_free(e) ==
    CASE e.op = "IntegerNumberValue" -> <<>>
      [] e.op = "IntegerNumberVariable" ->
            <<Variable(e.sym, Domain_Integer(IntegerNumberDomainExpression_Universe))>>
      [] e.op \in {"Parenthesis", "Negate"} -> IntegerNumberExpression_get_free(e.a)
      [] e.op \in {"Add", "Minus", "Times", "Divide", "Modulo"} ->
            IntegerNumberExpression_get_free(e.a) \o IntegerNumberExpression_get_free(e.b)

\* impl FreeVariable for Vec<IntegerNumberExpression>
RECURSIVE Vec_get_free(_)
Vec_get_free(es) ==
    IF es = <<>> THEN <<>>
    ELSE IntegerNumberExpression_get_free(Head(es)) \o Vec_get_free(Tail(es))

RECURSIVE IntegerNumberDomainExpression_get_free(_)
\* Variant of IntegerNumberDomainExpression_get_free that does not look into
\* the elements of an ExplicitSet.
IntegerNumberDomainExpression_get_free_skips_set(d) ==
    CASE d.op \in {"Universe", "Empty", "ExplicitSet"} -> <<>>
      [] d.op \in {"ClosedRange", "OpenRange", "OpenLeftClosedRightRange",
                   "ClosedLeftOpenRightRange"} ->
            IntegerNumberExpression_get_free(d.a) \o IntegerNumberExpression_get_free(d.b)
      [] d.op \in {"Union", "Intersection", "Difference"} ->
            IntegerNumberDomainExpression_get_free(d.a)
                \o IntegerNumberDomainExpression_get_free(d.b)
      [] d.op = "Complement" -> IntegerNumberDomainExpression_get_free(d.a)

IntegerNumberDomainExpression_get_free(d) ==
    CASE d.op \in {"Universe", "Empty"} -> <<>>
      [] d.op \in {"ClosedRange", "OpenRange", "OpenLeftClosedRightRange",
                   "ClosedLeftOpenRightRange"} ->
            IntegerNumberExpression_get_free(d.a) \o IntegerNumberExpression_get_free(d.b)
      [] d.op = "ExplicitSet" -> Vec_get_free(d.elts)
      [] d.op \in {"Union", "Intersection", "Difference"} ->
            IntegerNumberDomainExpression_get_free(d.a)
                \o IntegerNumberDomainExpression_get_free(d.b)
      [] d.op = "Complement" -> IntegerNumberDomainExpression_get_free(d.a)

\* Variant of BooleanIntegerNumberExpression_get_free that lists the variables
\* of the domain of In before those of its expression.
BooleanIntegerNumberExpression_get_free_domain_first(e) ==
    CASE e.op \in {"Equals", "Different", "Greater", "Less"} ->
            IntegerNumberExpression_get_free(e.a) \o IntegerNumberExpression_get_free(e.b)
      [] e.op = "In" ->
            IntegerNumberDomainExpression_get_free(e.b)
                \o IntegerNumberExpression_get_free(e.a)

BooleanIntegerNumberExpression_get_free(e) ==
    CASE e.op \in {"Equals", "Different", "Greater", "Less"} ->
            IntegerNumberExpression_get_free(e.a) \o IntegerNumberExpression_get_free(e.b)
      [] e.op = "In" ->
            IntegerNumberExpression_get_free(e.a)
                \o IntegerNumberDomainExpression_get_free(e.b)

ConstraintLogicExpression_get_free(e) ==
    CASE e.op = "Boolean" -> BooleanExpression_get_free(e.a)
      [] e.op = "OfIntegerNumber" -> BooleanIntegerNumberExpression_get_free(e.a)

SatisfactionExpression_get_free(e) ==
    CASE e.op \in {"Satisfy", "Minimise", "Maximise"} ->
            ConstraintLogicExpression_get_free(e.a)

RECURSIVE ConstraintProgramExpression_get_free(_)
ConstraintProgramExpression_get_free(e) ==
    CASE e.op = "Solve" -> SatisfactionExpression_get_free(e.a)
      [] e.op = "SolveAnd" ->
            SatisfactionExpression_get_free(e.a)
                \o ConstraintProgramExpression_get_free(e.b)
      [] e.op = "ConstrainAnd" ->
            ConstraintLogicExpression_get_free(e.a)
                \o ConstraintProgramExpression_get_free(e.b)

(***************************************************************************)
(* Equality, as #[derive(PartialEq, Eq)] defines it: the same variant, and *)
(* equal payloads.                                                         *)
(***************************************************************************)
\* Variant of IntegerNumber_eq in which NaN equals nothing.
IntegerNumber_eq_nan_unequal(x, y) ==
    x.op = "Value" /\ y.op = "Value" /\ x.n = y.n

IntegerNumber_eq(x, y) ==
    CASE x.op = "NaN" /\ y.op = "NaN" -> TRUE
      [] x.op = "Value" /\ y.op = "Value" -> x.n = y.n
      [] OTHER -> FALSE

AssignedValue_eq(v, w) ==
    CASE v.op = "Boolean" /\ w.op = "Boolean" -> v.val = w.val
      [] v.op = "Integer" /\ w.op = "Integer" -> IntegerNumber_eq(v.val, w.val)
      [] OTHER -> FALSE

Assignment_eq(x, y) == x.name = y.name /\ AssignedValue_eq(x.value, y.value)

(***************************************************************************)
(* Sample::sample and Variable::assignment.                                *)
(***************************************************************************)
\* Variant of BooleanValueDomainExpression_sample with the Empty and Universe
\* arms exchanged.
BooleanValueDomainExpression_sample_arms_exchanged(d) ==
    CASE d.op = "Universe" -> None
      [] d.op = "Single" -> Some(AssignedValue_Boolean(d.val))
      [] d.op = "Empty" -> Some(AssignedValue_Boolean("False"))

\* Variant of BooleanValueDomainExpression_sample that answers False for every
\* inhabited domain.
BooleanValueDomainExpression_sample_always_false(d) ==
    CASE d.op = "Empty" -> None
      [] d.op = "Single" -> Some(AssignedValue_Boolean("False"))
      [] d.op = "Universe" -> Some(AssignedValue_Boolean("False"))

\* Variant of BooleanValueDomainExpression_sample whose representative of
\* Universe is True.
BooleanValueDomainExpression_sample_universe_true(d) ==
    CASE d.op = "Empty" -> None
      [] d.op = "Single" -> Some(AssignedValue_Boolean(d.val))
      [] d.op = "Universe" -> Some(AssignedValue_Boolean("True"))

BooleanValueDomainExpression_sample(d) ==
    CASE d.op = "Empty" -> None
      [] d.op = "Single" -> Some(AssignedValue_Boolean(d.val))
      [] d.op = "Universe" -> Some(AssignedValue_Boolean("False"))

\* Variant of IntegerNumberDomainExpression_sample with the Empty and Universe
\* arms exchanged.
IntegerNumberDomainExpression_sample_arms_exchanged(d) ==
    CASE d.op = "Universe" -> None
      [] d.op = "Empty" -> Some(AssignedValue_Integer(Value(0)))
      [] OTHER -> Panic

IntegerNumberDomainExpression_sample(d) ==
    CASE d.op = "Empty" -> None
      [] d.op = "Universe" -> Some(AssignedValue_Integer(Value(0)))
      [] OTHER -> Panic

Domain_sample(d) ==
    CASE d.op = "Boolean" -> BooleanValueDomainExpression_sample(d.dom)
      [] d.op = "Integer" -> IntegerNumberDomainExpression_sample(d.dom)

Variable_assignment(x) ==
    LET s == Domain_sample(x.domain)
    IN  CASE s = None -> None
          [] s = Panic -> Panic
          [] OTHER -> Some(Assignment(x.name, s.val))

(***************************************************************************)
(* src/solver.rs                                                           *)
(***************************************************************************)
\* The loop of generate_attempt: assigned is the Vec built so far.
RECURSIVE generate_attempt_loop(_, _)
\* Variant of generate_attempt_loop whose values depend on the position in the
\* list: every variable after the first gets a value of its own.
generate_attempt_loop_by_position(xs, assigned) ==
    IF xs = <<>> THEN Some(assigned)
    ELSE LET r == Variable_assignment(Head(xs))
             k == Len(assigned)
         IN  CASE r = Panic -> Panic
               [] r = None -> None
               [] OTHER ->
                    generate_attempt_loop(Tail(xs), Append(assigned,
                        Assignment(r.val.name,
                            IF r.val.value.op = "Boolean"
                            THEN AssignedValue_Boolean(
                                    IF k = 0 THEN r.val.value.val ELSE "True")
                            ELSE AssignedValue_Integer(Value(r.val.value.val.n + k)))))

\* Variant of generate_attempt_loop that puts each new assignment in front of
\* the earlier ones.
generate_attempt_loop_prepend(xs, assigned) ==
    IF xs = <<>> THEN Some(assigned)
    ELSE LET r == Variable_assignment(Head(xs))
         IN  CASE r = Panic -> Panic
               [] r = None -> None
               [] OTHER -> generate_attempt_loop(Tail(xs), <<r.val>> \o assigned)

generate_attempt_loop(xs, assigned) ==
    IF xs = <<>> THEN Some(assigned)
    ELSE LET r == Variable_assignment(Head(xs))
         IN  CASE r = Panic -> Panic
               [] r = None -> None
               [] OTHER -> generate_attempt_loop(Tail(xs), Append(assigned, r.val))

generate_attempt(xs) == generate_attempt_loop(xs, <<>>)

\* Variant of apply that overwrites every variable leaf with the first
\* assigned value, whatever the leaf's Symbol.
RECURSIVE overwrite_leaves(_, _)
overwrite_leaves(e, v) ==
    IF "sym" \in DOMAIN e
        THEN ValLeaf(e.ty,
                     IF e.ty = BoolT THEN "BooleanValue" ELSE "IntegerNumberValue",
                     v.val)
    ELSE IF "elts" \in DOMAIN e
        THEN [e EXCEPT !.elts = [i \in DOMAIN e.elts |-> overwrite_leaves(e.elts[i], v)]]
    ELSE IF "b" \in DOMAIN e
        THEN [e EXCEPT !.a = overwrite_leaves(e.a, v), !.b = overwrite_leaves(e.b, v)]
    ELSE IF "a" \in DOMAIN e
        THEN [e EXCEPT !.a = overwrite_leaves(e.a, v)]
    ELSE e

apply_ignoring_symbols(p, st) ==
    IF st = <<>> THEN p ELSE overwrite_leaves(p, st[1].value)

\* Variant of apply that records the first assignment as a constraint in
\* front of the program instead of substituting it.
apply_as_constraint(p, st) ==
    IF st = <<>> THEN p
    ELSE Node2(ProgT, "ConstrainAnd",
               IF st[1].value.op = "Boolean"
               THEN Node1(LogicT, "Boolean",
                        Node2(BoolT, "Equals", BooleanVariable(st[1].name),
                              ValLeaf(BoolT, "BooleanValue", st[1].value.val)))
               ELSE Node1(LogicT, "OfIntegerNumber",
                        Node2(BoolIntT, "Equals", IntegerNumberVariable(st[1].name),
                              ValLeaf(IntT, "IntegerNumberValue", st[1].value.val))),
               p)

apply(p, st) == p

\* Variant of reduce that drops a leading conjunct that is the constant True,
\* one conjunct per pass.
reduce_one_conjunct(p) ==
    IF /\ p.op = "ConstrainAnd"
       /\ p.a = Node1(LogicT, "Boolean", ValLeaf(BoolT, "BooleanValue", "True"))
    THEN p.b ELSE p

reduce(p) == p

free_variables(p) == ConstraintProgramExpression_get_free(p)

solve(p) == <<>>

(***************************************************************************)
(* The programs, domains and variables the model is run on: every variant  *)
(* of every expression enum occurs, at the top of a constraint and nested  *)
(* on either side of an operator.                                          *)
(***************************************************************************)
BoolOps1 == {"Not", "Parenthesis"}
BoolOps2 == {"And", "Or", "Implies", "Equals"}
IntOps1 == {"Parenthesis", "Negate"}
IntOps2 == {"Add", "Minus", "Times", "Divide", "Modulo"}
RangeOps == {"ClosedRange", "OpenRange", "OpenLeftClosedRightRange",
             "ClosedLeftOpenRightRange"}
SetOps2 == {"Union", "Intersection", "Difference"}
RelOps == {"Equals", "Different", "Greater", "Less"}
GoalOps == {"Satisfy", "Minimise", "Maximise"}

SeqsUpTo(S, n) == UNION {[1..k -> S] : k \in 0..n}

BoolVars == {BooleanVariable(s) : s \in Symbols}
BoolLeaves == BoolVars \cup {ValLeaf(BoolT, "BooleanValue", v) : v \in BooleanValue}
BoolInner ==
    {Node2(BoolT, "Or", x, y) : x \in BoolVars, y \in BoolVars}
        \cup {Node1(BoolT, "Not", x) : x \in BoolVars}
BooleanExpressions ==
    BoolLeaves
        \cup {Node1(BoolT, op, x) : op \in BoolOps1, x \in BoolLeaves \cup BoolInner}
        \cup {Node2(BoolT, op, x, y) : op \in BoolOps2, x \in BoolLeaves, y \in BoolLeaves}
        \cup {Node2(BoolT, op, x, y) : op \in BoolOps2, x \in BoolInner, y \in BoolVars}
        \cup {Node2(BoolT, op, x, y) : op \in BoolOps2, x \in BoolVars, y \in BoolInner}

IntVars == {IntegerNumberVariable(s) : s \in Symbols}
IntLeaves == IntVars \cup {ValLeaf(IntT, "IntegerNumberValue", v) : v \in IntegerNumber}
IntInner ==
    {Node2(IntT, "Add", x, y) : x \in IntVars, y \in IntVars}
        \cup {Node1(IntT, "Negate", x) : x \in IntVars}
IntDeep ==
    {Node1(IntT, op, x) : op \in IntOps1, x \in IntLeaves \cup IntInner}
        \cup {Node2(IntT, op, x, y) : op \in IntOps2, x \in IntLeaves, y \in IntLeaves}
        \cup {Node2(IntT, op, x, y) : op \in IntOps2, x \in IntInner, y \in IntVars}
        \cup {Node2(IntT, op, x, y) : op \in IntOps2, x \in IntVars, y \in IntInner}
IntegerNumberExpressions == IntLeaves \cup IntDeep

IntegerNumberDomainExpression_Empty == Node0(IntDomT, "Empty")
DomBase ==
    {IntegerNumberDomainExpression_Universe, IntegerNumberDomainExpression_Empty}
        \cup {Node2(IntDomT, "ClosedRange", x,
                    ValLeaf(IntT, "IntegerNumberValue", Value(MaxInt))) : x \in IntVars}
        \cup {ExplicitSet(<<x>>) : x \in IntVars}
DomCombined == {Node2(IntDomT, op, x, y) : op \in SetOps2, x \in DomBase, y \in DomBase}
IntegerNumberDomainExpressions ==
    DomBase
        \cup {Node2(IntDomT, op, x, y) : op \in RangeOps, x \in IntLeaves, y \in IntLeaves}
        \cup {Node2(IntDomT, op, x, y) : op \in RangeOps, x \in IntInner, y \in IntVars}
        \cup {ExplicitSet(es) : es \in SeqsUpTo(IntLeaves, MaxSetLen)}
        \cup {ExplicitSet(<<x, y>>) : x \in IntInner, y \in IntVars}
        \cup DomCombined
        \cup {Node1(IntDomT, "Complement", x) : x \in DomBase \cup DomCombined}

AnIntVar == IntegerNumberVariable("a_0")
BooleanIntegerNumberExpressions ==
    {Node2(BoolIntT, op, x, y) : op \in RelOps, x \in IntLeaves, y \in IntLeaves}
        \cup {Node2(BoolIntT, op, x, AnIntVar) : op \in RelOps, x \in IntDeep}
        \cup {Node2(BoolIntT, op, AnIntVar, y) : op \in RelOps, y \in IntDeep}
        \cup {Node2(BoolIntT, "In", x, d) :
                x \in IntLeaves \cup {Node1(IntT, "Negate", AnIntVar)},
                d \in IntegerNumberDomainExpressions}

ConstraintLogicExpressions ==
    {Node1(LogicT, "Boolean", e) : e \in BooleanExpressions}
        \cup {Node1(LogicT, "OfIntegerNumber", e) : e \in BooleanIntegerNumberExpressions}

\* A few constraints of each kind, for the programs of more than one conjunct.
SomeConstraints ==
    {Node1(LogicT, "Boolean", e) : e \in BoolLeaves}
        \cup {Node1(LogicT, "OfIntegerNumber", Node2(BoolIntT, "Equals", x, y)) :
                x \in IntVars, y \in IntLeaves}
        \cup {Node1(LogicT, "OfIntegerNumber", Node2(BoolIntT, "In", x, d)) :
                x \in IntVars, d \in DomBase}

SomeGoals == {Node1(SatT, op, c) : op \in GoalOps, c \in SomeConstraints}
SatisfactionExpressions ==
    {Node1(SatT, "Satisfy", c) : c \in ConstraintLogicExpressions} \cup SomeGoals

AGoal == Node1(SatT, "Satisfy", Node1(LogicT, "Boolean", BooleanVariable("b_1")))
SomePrograms ==
    {Node1(ProgT, "Solve", g) : g \in SomeGoals}
        \cup {Node2(ProgT, "SolveAnd", g, Node1(ProgT, "Solve", AGoal)) : g \in SomeGoals}
        \cup {Node2(ProgT, "ConstrainAnd", c, Node1(ProgT, "Solve", AGoal)) :
                c \in SomeConstraints}
ConstraintProgramExpressions ==
    {Node1(ProgT, "Solve", g) : g \in SatisfactionExpressions}
        \cup {Node2(ProgT, "SolveAnd", g, p) :
                g \in {AGoal, Node1(SatT, "Minimise", Node1(LogicT, "OfIntegerNumber",
                                Node2(BoolIntT, "Less", AnIntVar, AnIntVar)))},
                p \in SomePrograms}
        \cup {Node2(ProgT, "ConstrainAnd", c, p) :
                c \in {Node1(LogicT, "Boolean", ValLeaf(BoolT, "BooleanValue", "False")),
                       Node1(LogicT, "Boolean", ValLeaf(BoolT, "BooleanValue", "True")),
                       Node1(LogicT, "Boolean", BooleanVariable("a_0")),
                       Node1(LogicT, "OfIntegerNumber",
                             Node2(BoolIntT, "Greater", AnIntVar,
                                   ValLeaf(IntT, "IntegerNumberValue", Value(0))))},
                p \in SomePrograms}

BooleanValueDomainExpressions ==
    {BooleanValueDomainExpression_Universe, Node0(BoolDomT, "Empty")}
        \cup {ValLeaf(BoolDomT, "Single", v) : v \in BooleanValue}
Domains ==
    {Domain_Boolean(d) : d \in BooleanValueDomainExpressions}
        \cup {Domain_Integer(d) : d \in IntegerNumberDomainExpressions}

\* The Variables the code builds: Variable has private fields and is only
\* constructed by get_free, over the Universe of the kind of the leaf.
Variables ==
    {Variable(s, Domain_Boolean(BooleanValueDomainExpression_Universe)) : s \in Symbols}
        \cup {Variable(s, Domain_Integer(IntegerNumberDomainExpression_Universe)) :
                s \in Symbols}
VariableLists == SeqsUpTo(Variables, MaxVars)

Assignments == {Assignment(n, v) : n \in Symbols, v \in AssignedValue}

\* Assignment sequences handed to apply directly.
SomeAssignments ==
    {Assignment(s, v) : s \in Symbols,
                        v \in {AssignedValue_Boolean("True"),
                               AssignedValue_Integer(Value(MaxInt))}}
AssignmentLists ==
    {<<>>} \cup {<<x>> : x \in SomeAssignments}
        \cup {<<x, y>> : x \in {z \in SomeAssignments : z.name = "a_0"},
                         y \in {z \in SomeAssignments : z.name = "b_1"}}

(***************************************************************************)
(* The caller of src/solver.rs: the pipeline of the property test          *)
(* a_solution_covers_all_free_variables, and single calls of apply, reduce *)
(* and solve on the program.                                               *)
(***************************************************************************)
Init ==
    /\ program \in ConstraintProgramExpressions
    /\ pc = "start"
    /\ free = <<>>
    /\ attempt = NotCalled
    /\ state = <<>>
    /\ update_program = NotCalled
    /\ free_after_apply = <<>>
    /\ covered = NotCalled
    /\ reduced = NotCalled
    /\ reduced_again = NotCalled
    /\ solutions = <<>>
    /\ call = NotCalled

\* let free = free_variables(&p);
FreeVariables ==
    /\ pc = "start"
    /\ free' = free_variables(program)
    /\ pc' = "free"
    /\ UNCHANGED <<program, attempt, state, update_program, free_after_apply, covered,
                   reduced, reduced_again, solutions, call>>

\* generate_attempt(free)
GenerateAttempt ==
    /\ pc = "free"
    /\ attempt' = generate_attempt(free)
    /\ pc' = "attempt"
    /\ UNCHANGED <<program, free, state, update_program, free_after_apply, covered,
                   reduced, reduced_again, solutions, call>>

\* if let Some(attempt) = ... { apply(p, attempt) ... } else { true }
Apply ==
    /\ pc = "attempt"
    /\ CASE attempt.op = "Some" ->
                /\ state' = attempt.val
                /\ update_program' = apply(program, attempt.val)
                /\ pc' = "applied"
                /\ UNCHANGED covered
         [] attempt.op = "None" ->
                /\ covered' = TRUE
                /\ pc' = "done"
                /\ UNCHANGED <<state, update_program>>
         [] attempt.op = "Panic" ->
                /\ pc' = "panicked"
                /\ UNCHANGED <<state, update_program, covered>>
    /\ UNCHANGED <<program, free, attempt, free_after_apply, reduced, reduced_again,
                   solutions, call>>

\* let free_after_apply = free_variables(&update_program); free_after_apply.is_empty()
FreeAfterApply ==
    /\ pc = "applied"
    /\ free_after_apply' = free_variables(update_program)
    /\ covered' = (free_after_apply' = <<>>)
    /\ pc' = "done"
    /\ UNCHANGED <<program, free, attempt, state, update_program, reduced,
                   reduced_again, solutions, call>>

\* apply(p, st) for an assignment sequence of the caller's choice
ApplyWith ==
    /\ pc = "start"
    /\ \E st \in AssignmentLists :
        /\ state' = st
        /\ update_program' = apply(program, st)
    /\ pc' = "applied_with"
    /\ UNCHANGED <<program, free, attempt, free_after_apply, covered, reduced,
                   reduced_again, solutions, call>>

\* reduce(p)
Reduce ==
    /\ pc = "start"
    /\ reduced' = reduce(program)
    /\ pc' = "reduced"
    /\ UNCHANGED <<program, free, attempt, state, update_program, free_after_apply,
                   covered, solutions, call, reduced_again>>

\* reduce(reduce(p))
ReduceAgain ==
    /\ pc = "reduced"
    /\ reduced_again' = reduce(reduced)
    /\ pc' = "reduced_again"
    /\ UNCHANGED <<program, free, attempt, state, update_program, free_after_apply,
                   covered, reduced, solutions, call>>

\* solve(p)
Solve ==
    /\ pc = "start"
    /\ solutions' = solve(program)
    /\ pc' = "solved"
    /\ UNCHANGED <<program, free, attempt, state, update_program, free_after_apply,
                   covered, reduced, reduced_again, call>>

Next ==
    \/ FreeVariables
    \/ GenerateAttempt
    \/ Apply
    \/ FreeAfterApply
    \/ ApplyWith
    \/ Reduce
    \/ ReduceAgain
    \/ Solve

Spec == Init /\ [][Next]_vars

(***************************************************************************)
(* Direct calls of the sampler and of the attempt generator, on domains    *)
(* of every shape and on the Variables get_free builds.                    *)
(***************************************************************************)
SamplerInit ==
    /\ program = Node1(ProgT, "Solve", AGoal)
    /\ pc = "idle"
    /\ free = <<>>
    /\ attempt = NotCalled
    /\ state = <<>>
    /\ update_program = NotCalled
    /\ free_after_apply = <<>>
    /\ covered = NotCalled
    /\ reduced = NotCalled
    /\ reduced_again = NotCalled
    /\ solutions = <<>>
    /\ call = NotCalled

\* d.sample()
SampleCall ==
    /\ pc = "idle"
    /\ \E d \in Domains :
        call' = [op |-> "Called", fn |-> "sample", arg |-> d, result |-> Domain_sample(d)]
    /\ pc' = "returned"
    /\ UNCHANGED <<program, free, attempt, state, update_program, free_after_apply,
                   covered, reduced, reduced_again, solutions>>

\* generate_attempt(xs)
GenerateAttemptCall ==
    /\ pc = "idle"
    /\ \E xs \in VariableLists :
        call' = [op |-> "Called", fn |-> "generate_attempt", arg |-> xs, result |-> generate_attempt(xs)]
    /\ pc' = "returned"
    /\ UNCHANGED <<program, free, attempt, state, update_program, free_after_apply,
                   covered, reduced, reduced_again, solutions>>

\* x == y on IntegerNumber
IntegerNumberEqCall ==
    /\ pc = "idle"
    /\ \E x \in IntegerNumber, y \in IntegerNumber :
        call' = [op |-> "Called", fn |-> "IntegerNumber::eq", arg |-> [x |-> x, y |-> y],
                 result |-> IntegerNumber_eq(x, y)]
    /\ pc' = "returned"
    /\ UNCHANGED <<program, free, attempt, state, update_program, free_after_apply,
                   covered, reduced, reduced_again, solutions>>

\* x == y on Assignment (and, inside it, on AssignedValue)
AssignmentEqCall ==
    /\ pc = "idle"
    /\ \E x \in Assignments, y \in Assignments :
        call' = [op |-> "Called", fn |-> "Assignment::eq", arg |-> [x |-> x, y |-> y],
                 result |-> Assignment_eq(x, y)]
    /\ pc' = "returned"
    /\ UNCHANGED <<program, free, attempt, state, update_program, free_after_apply,
                   covered, reduced, reduced_again, solutions>>

SamplerNext ==
    \/ SampleCall
    \/ GenerateAttemptCall
    \/ IntegerNumberEqCall
    \/ AssignmentEqCall

SamplerSpec == SamplerInit /\ [][SamplerNext]_vars

(***************************************************************************)
(* Structure of a tree, read off the enum definitions alone: the children  *)
(* of a node in declaration order, the positions (paths of child indices)  *)
(* of a tree and the node at a position.                                   *)
(***************************************************************************)
Children(e) ==
    IF "elts" \in DOMAIN e THEN e.elts
    ELSE IF "b" \in DOMAIN e THEN <<e.a, e.b>>
    ELSE IF "a" \in DOMAIN e THEN <<e.a>>
    ELSE <<>>

IsVariableLeaf(e) == e.op \in {"BooleanVariable", "IntegerNumberVariable"}

RECURSIVE Paths(_)
Paths(e) ==
    {<<>>} \cup UNION {{<<i>> \o q : q \in Paths(Children(e)[i])} :
                        i \in 1..Len(Children(e))}

RECURSIVE NodeAt(_, _)
NodeAt(e, path) ==
    IF path = <<>> THEN e ELSE NodeAt(Children(e)[Head(path)], Tail(path))

\* Two nodes agree in everything but their sub-trees: enum, variant, leaf
\* payload and number of children.
SameLabel(m, n) ==
    /\ m.ty = n.ty
    /\ m.op = n.op
    /\ Len(Children(m)) = Len(Children(n))
    /\ ("sym" \in DOMAIN m => m.sym = n.sym)
    /\ ("val" \in DOMAIN m => m.val = n.val)

RECURSIVE LexLess(_, _)
LexLess(p1, p2) ==
    IF p1 = <<>> THEN p2 # <<>>
    ELSE IF p2 = <<>> THEN FALSE
    ELSE IF Head(p1) # Head(p2) THEN Head(p1) < Head(p2)
    ELSE LexLess(Tail(p1), Tail(p2))

RECURSIVE SortPaths(_)
SortPaths(S) ==
    IF S = {} THEN <<>>
    ELSE LET m == CHOOSE x \in S : \A y \in S \ {x} : LexLess(x, y)
         IN  <<m>> \o SortPaths(S \ {m})

\* The variable leaves of a tree, left to right.
VariableLeaves(e) ==
    LET ps == SortPaths({q \in Paths(e) : IsVariableLeaf(NodeAt(e, q))})
    IN  [i \in 1..Len(ps) |-> NodeAt(e, ps[i])]

Names(st) == {st[i].name : i \in 1..Len(st)}

(***************************************************************************)
(* The set a domain denotes (spec.md, section 3 and section 4.3).          *)
(***************************************************************************)
TruncDiv(x, y) ==
    IF (x >= 0) = (y > 0) THEN (IF x >= 0 THEN x ELSE -x) \div (IF y > 0 THEN y ELSE -y)
    ELSE -((IF x >= 0 THEN x ELSE -x) \div (IF y > 0 THEN y ELSE -y))

RECURSIVE Eval(_)
Eval(e) ==
    CASE e.op = "IntegerNumberValue" -> e.val
      [] e.op = "IntegerNumberVariable" -> NaN
      [] e.op = "Parenthesis" -> Eval(e.a)
      [] e.op = "Negate" -> IF Eval(e.a) = NaN THEN NaN ELSE Value(-Eval(e.a).n)
      [] e.op \in IntOps2 ->
            LET x == Eval(e.a)
                y == Eval(e.b)
            IN  IF x = NaN \/ y = NaN THEN NaN
                ELSE CASE e.op = "Add" -> Value(x.n + y.n)
                       [] e.op = "Minus" -> Value(x.n - y.n)
                       [] e.op = "Times" -> Value(x.n * y.n)
                       [] e.op = "Divide" ->
                            IF y.n = 0 THEN NaN ELSE Value(TruncDiv(x.n, y.n))
                       [] e.op = "Modulo" ->
                            IF y.n = 0 THEN NaN
                            ELSE Value(x.n - y.n * TruncDiv(x.n, y.n))

RECURSIVE IntegerMember(_, _)
IntegerMember(v, d) ==
    /\ v # NaN
    /\ CASE d.op = "Universe" -> TRUE
         [] d.op = "Empty" -> FALSE
         [] d.op \in RangeOps ->
                LET lo == Eval(d.a)
                    hi == Eval(d.b)
                IN  /\ lo # NaN
                    /\ hi # NaN
                    /\ IF d.op \in {"ClosedRange", "ClosedLeftOpenRightRange"}
                       THEN lo.n <= v.n ELSE lo.n < v.n
                    /\ IF d.op \in {"ClosedRange", "OpenLeftClosedRightRange"}
                       THEN v.n <= hi.n ELSE v.n < hi.n
         [] d.op = "ExplicitSet" -> \E i \in 1..Len(d.elts) : Eval(d.elts[i]) = v
         [] d.op = "Union" -> IntegerMember(v, d.a) \/ IntegerMember(v, d.b)
         [] d.op = "Intersection" -> IntegerMember(v, d.a) /\ IntegerMember(v, d.b)
         [] d.op = "Difference" -> IntegerMember(v, d.a) /\ ~IntegerMember(v, d.b)
         [] d.op = "Complement" -> ~IntegerMember(v, d.a)

BooleanMember(v, d) ==
    CASE d.op = "Universe" -> v \in BooleanValue
      [] d.op = "Empty" -> FALSE
      [] d.op = "Single" -> v = d.val

\* v, an AssignedValue, is of the kind of d and in the set d denotes.
Member(v, d) ==
    /\ v.op = d.op
    /\ IF d.op = "Boolean" THEN BooleanMember(v.val, d.dom)
       ELSE IntegerMember(v.val, d.dom)

(***************************************************************************)
(* Claims.                                                                 *)
(***************************************************************************)
\* free holds the result of free_variables(&p)
FreeReturned == pc \in {"free", "attempt", "applied", "done", "panicked"}

\* C1 (as claimed): coverage. Whenever generate_attempt(free_variables(p))
\* returns an attempt a, free_variables(apply(p, a)) is the empty sequence.
C1_Coverage ==
    (pc = "done" /\ attempt.op = "Some") => free_after_apply = <<>>

\* C2 (as claimed): after apply(p, st) no variable leaf whose Symbol is
\* assigned by st is left anywhere in the result.
C2_ApplySubstitutesAssigned ==
    pc \in {"applied", "applied_with"} =>
        \A q \in Paths(update_program) :
            IsVariableLeaf(NodeAt(update_program, q)) =>
                NodeAt(update_program, q).sym \notin Names(state)

\* C3: apply changes nothing but matched variable leaves. Every position of
\* the input that is not a variable leaf assigned by st is a position of the
\* result and holds a node of the same enum, variant, payload and arity; the
\* result has no position the input lacks; and with the empty assignment
\* sequence the result is the input.
C3_ApplyFrame ==
    pc \in {"applied", "applied_with"} =>
        /\ \A q \in Paths(program) :
              \/ /\ IsVariableLeaf(NodeAt(program, q))
                 /\ NodeAt(program, q).sym \in Names(state)
              \/ /\ q \in Paths(update_program)
                 /\ SameLabel(NodeAt(program, q), NodeAt(update_program, q))
        /\ Paths(update_program) \subseteq Paths(program)
        /\ (state = <<>> => update_program = program)

\* apply has run with an assignment sequence that matches one variable leaf
\* of the program and leaves another one unmatched.
C3_Witness ==
    /\ pc = "applied_with"
    /\ state # <<>>
    /\ \E q \in Paths(program) :
          /\ IsVariableLeaf(NodeAt(program, q))
          /\ NodeAt(program, q).sym \in Names(state)
    /\ \E q \in Paths(program) :
          /\ IsVariableLeaf(NodeAt(program, q))
          /\ NodeAt(program, q).sym \notin Names(state)

\* C4: generate_attempt is all-or-nothing and keeps the order. It returns None
\* iff the sample of some input Variable's domain is None, and otherwise
\* returns one Assignment per input Variable, in input order, with that
\* Variable's Symbol and the sample of its domain.
C4_AllOrNothing ==
    call.op = "Called" /\ call.fn = "generate_attempt" =>
        LET xs == call.arg
            r == call.result
            fails == \E i \in 1..Len(xs) : Domain_sample(xs[i].domain) = None
        IN  /\ (r = None) <=> fails
            /\ ~fails =>
                  /\ r.op = "Some"
                  /\ Len(r.val) = Len(xs)
                  /\ \A i \in 1..Len(xs) :
                        /\ Domain_sample(xs[i].domain).op = "Some"
                        /\ r.val[i] = Assignment(xs[i].name,
                                                 Domain_sample(xs[i].domain).val)

\* generate_attempt has returned an attempt for a boolean Variable followed by
\* an integer Variable of another Symbol.
C4_Witness ==
    /\ call.op = "Called"
    /\ call.fn = "generate_attempt"
    /\ Len(call.arg) = 2
    /\ call.arg[1].domain.op = "Boolean"
    /\ call.arg[2].domain.op = "Integer"
    /\ call.arg[1].name # call.arg[2].name
    /\ call.result.op = "Some"

\* C5: free_variables(p) lists the variable leaves of p left to right, depth
\* first, duplicates kept: as many entries as p has variable leaves, the i-th
\* with the Symbol of the i-th variable leaf.
C5_GetFreeOrder ==
    FreeReturned =>
        LET leaves == VariableLeaves(program)
        IN  /\ Len(free) = Len(leaves)
            /\ \A i \in 1..Len(leaves) : free[i].name = leaves[i].sym

\* free_variables has returned three or more entries, with a repeated Symbol
\* and a different Symbol between the two occurrences.
C5_Witness ==
    /\ FreeReturned
    /\ Len(free) >= 3
    /\ free[1].name = free[3].name
    /\ free[1].name # free[2].name

\* C6: every Variable returned by free_variables has the Universe domain of
\* the kind of its leaf: Domain::Boolean(Universe) for a BooleanVariable and
\* Domain::Integer(Universe) for an IntegerNumberVariable.
C6_GetFreeUniverse ==
    FreeReturned =>
        LET leaves == VariableLeaves(program)
        IN  \A i \in 1..Len(free) :
                /\ i <= Len(leaves)
                /\ free[i].domain =
                      IF leaves[i].op = "BooleanVariable"
                      THEN Domain_Boolean(Node0(BoolDomT, "Universe"))
                      ELSE Domain_Integer(Node0(IntDomT, "Universe"))

\* free_variables has returned a boolean and an integer variable.
C6_Witness ==
    /\ FreeReturned
    /\ \E i \in 1..Len(free) : free[i].domain.op = "Boolean"
    /\ \E i \in 1..Len(free) : free[i].domain.op = "Integer"

\* The sub-trees of a tree, itself included.
RECURSIVE SubExpressions(_)
SubExpressions(e) ==
    {e} \cup UNION {SubExpressions(Children(e)[i]) : i \in 1..Len(Children(e))}

\* C7: free_variables(p) is empty if and only if p contains no variable leaf,
\* domain expressions included.
C7_GetFreeEmptyIff ==
    FreeReturned =>
        ((Len(free) = 0) <=> ~\E n \in SubExpressions(program) : IsVariableLeaf(n))

\* free_variables has run on a program whose only variable leaves are inside
\* the domain of an In constraint.
C7_Witness ==
    /\ FreeReturned
    /\ Len(free) > 0
    /\ program.op = "Solve"
    /\ program.a.a.op = "OfIntegerNumber"
    /\ program.a.a.a.op = "In"
    /\ program.a.a.a.a.op = "IntegerNumberValue"

\* C8: sample of an Empty domain, boolean or integer, is None, and Empty is
\* the only boolean domain whose sample is None.
C8_SampleEmpty ==
    call.op = "Called" /\ call.fn = "sample" =>
        /\ call.arg.dom.op = "Empty" => call.result = None
        /\ (call.arg.op = "Boolean" /\ call.result = None) =>
              call.arg.dom.op = "Empty"

\* sample has run on the empty integer domain.
C8_Witness ==
    /\ call.op = "Called"
    /\ call.fn = "sample"
    /\ call.arg = Domain_Integer(Node0(IntDomT, "Empty"))
    /\ call.result = None

\* C9: sample is Boolean(False) on the boolean Universe, Integer(Value(0)) on
\* the integer Universe and Boolean(v) on Single(v).
C9_SampleRepresentative ==
    call.op = "Called" /\ call.fn = "sample" =>
        /\ call.arg = Domain_Boolean(Node0(BoolDomT, "Universe")) =>
              call.result = Some(AssignedValue_Boolean("False"))
        /\ call.arg = Domain_Integer(Node0(IntDomT, "Universe")) =>
              call.result = Some(AssignedValue_Integer(Value(0)))
        /\ (call.arg.op = "Boolean" /\ call.arg.dom.op = "Single") =>
              call.result = Some(AssignedValue_Boolean(call.arg.dom.val))

\* sample has run on Single(True).
C9_Witness ==
    /\ call.op = "Called"
    /\ call.fn = "sample"
    /\ call.arg = Domain_Boolean(ValLeaf(BoolDomT, "Single", "True"))
    /\ call.result = Some(AssignedValue_Boolean("True"))

\* C10: a value returned by sample(d) is of the kind of d and a member of the
\* set d denotes.
C10_SampleMember ==
    (call.op = "Called" /\ call.fn = "sample" /\ call.result.op = "Some") =>
        Member(call.result.val, call.arg)

\* sample has returned a value for an integer domain.
C10_Witness ==
    /\ call.op = "Called"
    /\ call.fn = "sample"
    /\ call.arg.op = "Integer"
    /\ call.result.op = "Some"

\* C11 (as claimed): sample on an integer domain other than Universe and Empty
\* (a range, an ExplicitSet, Union, Intersection, Difference, Complement)
\* ends with a value or with no value; it never aborts.
C11_SampleNeverAborts ==
    (/\ call.op = "Called"
     /\ call.fn = "sample"
     /\ call.arg.op = "Integer"
     /\ call.arg.dom.op \notin {"Universe", "Empty"}) =>
        call.result.op \in {"None", "Some"}

\* C12: reduction is idempotent. reduce(reduce(p)) is structurally equal to
\* reduce(p).
C12_ReduceIdempotent ==
    pc = "reduced_again" => reduced_again = reduced

\* reduce has run twice on a program with two leading conjuncts, the first of
\* them a boolean constant.
C12_Witness ==
    /\ pc = "reduced_again"
    /\ program.op = "ConstrainAnd"
    /\ program.b.op = "ConstrainAnd"
    /\ program.a.op = "Boolean"
    /\ program.a.a.op = "BooleanValue"

\* An integer literal, and one that is a number.
IsIntegerLiteral(e) == e.ty = IntT /\ e.op = "IntegerNumberValue"
IsNumberLiteral(e) == IsIntegerLiteral(e) /\ e.val # NaN

\* C13 (as claimed): reduce folds arithmetic on concrete operands. No
\* Add, Minus, Times, Divide or Modulo node whose two operands are number
\* literals is left in reduce(p).
C13_ReduceFoldsArithmetic ==
    pc \in {"reduced", "reduced_again"} =>
        \A n \in SubExpressions(reduced) :
            (n.ty = IntT /\ n.op \in IntOps2) =>
                ~(IsNumberLiteral(n.a) /\ IsNumberLiteral(n.b))

\* C14 (as claimed): NaN propagation. reduce(p) holds no Divide or Modulo by
\* the literal Value(0), and no arithmetic node with a NaN literal operand:
\* each has become the NaN value.
C14_ReduceNaN ==
    pc \in {"reduced", "reduced_again"} =>
        \A n \in SubExpressions(reduced) :
            /\ (n.ty = IntT /\ n.op \in {"Divide", "Modulo"}) =>
                  ~(IsIntegerLiteral(n.a) /\ IsIntegerLiteral(n.b) /\ n.b.val = Value(0))
            /\ (n.ty = IntT /\ n.op \in IntOps1 \cup IntOps2) =>
                  \A i \in 1..Len(Children(n)) :
                      ~(IsIntegerLiteral(Children(n)[i]) /\ Children(n)[i].val = NaN)

\* C15 (as claimed): reduce evaluates an integer relation on concrete operands
\* to a BooleanValue. No Equals, Different, Greater or Less node whose two
\* operands are literals (numbers or NaN) is left in reduce(p).
C15_ReduceRelations ==
    pc \in {"reduced", "reduced_again"} =>
        \A n \in SubExpressions(reduced) :
            (n.ty = BoolIntT /\ n.op \in RelOps) =>
                ~(IsIntegerLiteral(n.a) /\ IsIntegerLiteral(n.b))

\* C16 (as claimed): NaN is equal to nothing, itself included. Comparing two
\* IntegerNumbers, or two Assignments of integer values, one of which is NaN,
\* reports them not equal.
C16_NaNNeverEqual ==
    /\ (call.op = "Called" /\ call.fn = "IntegerNumber::eq") =>
          ((call.arg.x = NaN \/ call.arg.y = NaN) => call.result = FALSE)
    /\ (call.op = "Called" /\ call.fn = "Assignment::eq") =>
          ((\/ call.arg.x.value = AssignedValue_Integer(NaN)
            \/ call.arg.y.value = AssignedValue_Integer(NaN)) => call.result = FALSE)

\* C16 (amended): equality of IntegerNumber is structural and reflexive. NaN
\* equals NaN and differs from every Value(n), and Value(a) equals Value(b)
\* iff a = b; two Assignments are equal iff they have the same Symbol and the
\* same AssignedValue, NaN included.
C16_EqualityStructural ==
    /\ (call.op = "Called" /\ call.fn = "IntegerNumber::eq") =>
          /\ (call.arg.x = NaN /\ call.arg.y = NaN) => call.result = TRUE
          /\ (call.arg.x = NaN /\ call.arg.y # NaN) => call.result = FALSE
          /\ (call.arg.x # NaN /\ call.arg.y = NaN) => call.result = FALSE
          /\ (call.arg.x # NaN /\ call.arg.y # NaN) =>
                (call.result = (call.arg.x.n = call.arg.y.n))
    /\ (call.op = "Called" /\ call.fn = "Assignment::eq") =>
          call.result = (call.arg.x = call.arg.y)

\* NaN has been compared with NaN.
C16_Witness ==
    /\ call.op = "Called"
    /\ call.fn = "IntegerNumber::eq"
    /\ call.arg.x = NaN
    /\ call.arg.y = NaN

(***************************************************************************)
(* solve                                                                   *)
(***************************************************************************)
HasUnsatisfiable(sols) == \E i \in 1..Len(sols) : sols[i].op = "Unsatisfiable"

Reported(sols) ==
    {sols[i].sym : i \in {j \in 1..Len(sols) : sols[j].op \in {"Variable", "Constant"}}}

\* C17: solve returns an Unsatisfiable solution, or a Variable/Constant
\* solution for every free variable of the program; so its result is not
\* empty when the program has a free variable.
C17_SolveCoversOrRefutes ==
    pc = "solved" =>
        /\ \/ HasUnsatisfiable(solutions)
           \/ \A i \in 1..Len(free_variables(program)) :
                free_variables(program)[i].name \in Reported(solutions)
        /\ Len(free_variables(program)) > 0 => Len(solutions) > 0

\* C18: for the program Solve(Satisfy(OfIntegerNumber(Equals(x, c)))), with x
\* a variable and c a number literal, solve returns exactly
\* [Variable(x, Integer(Value(c)))].
C18_SolveEquation ==
    \A x \in Symbols, c \in IntegerNumber \ {NaN} :
        (/\ pc = "solved"
         /\ program = Node1(ProgT, "Solve", Node1(SatT, "Satisfy",
                        Node1(LogicT, "OfIntegerNumber",
                            Node2(BoolIntT, "Equals", IntegerNumberVariable(x),
                                  ValLeaf(IntT, "IntegerNumberValue", c))))))
            => solutions = <<Solution_Variable(x, AssignedValue_Integer(c))>>

\* C19: for a program ConstrainAnd(Boolean(BooleanValue(False)), rest), solve
\* returns an Unsatisfiable solution, whatever rest is.
C19_FalseConstraintUnsatisfiable ==
    (/\ pc = "solved"
     /\ program.op = "ConstrainAnd"
     /\ program.a = Node1(LogicT, "Boolean", ValLeaf(BoolT, "BooleanValue", "False")))
        => HasUnsatisfiable(solutions)

\* C21: solve ends in a report of a terminal state of the driver. For a
\* program with free variables that is a solution for every free variable
\* (Satisfied) or an Unsatisfiable solution (Unsatisfiable, or Stuck with the
\* reason "stuck"); and when an iteration (attempt, apply, reduce) gives the
\* program back unchanged with its free variables, so that every iteration
\* bound is exceeded, the report is an Unsatisfiable solution with the reason
\* "stuck".
C21_StuckSurfaced ==
    (pc = "solved" /\ Len(free_variables(program)) > 0) =>
        LET a == generate_attempt(free_variables(program))
            no_progress == /\ a.op = "Some"
                           /\ reduce(apply(program, a.val)) = program
        IN  /\ \/ HasUnsatisfiable(solutions)
               \/ Names(free_variables(program)) \subseteq Reported(solutions)
            /\ no_progress =>
                  \E i \in 1..Len(solutions) :
                      /\ solutions[i].op = "Unsatisfiable"
                      /\ solutions[i].reason = "stuck"

\* C22: for a program whose goal is Minimise or Maximise, solve returns a
\* solution (the optimal one): a Variable or Constant solution for every free
\* variable of the program, or an Unsatisfiable solution when there is none.
C22_OptimisationSolved ==
    (/\ pc = "solved"
     /\ program.op = "Solve"
     /\ program.a.op \in {"Minimise", "Maximise"}
     /\ Len(free_variables(program)) > 0) =>
        \/ /\ HasUnsatisfiable(solutions)
           /\ Len(solutions) = 1
        \/ /\ ~HasUnsatisfiable(solutions)
           /\ Names(free_variables(program)) = Reported(solutions)

(***************************************************************************)
(* Reduction of In(expr, domain)                                           *)
(***************************************************************************)
\* p is Solve(Satisfy(OfIntegerNumber(In(v, d)))) with v a number literal and
\* d a domain without variables.
IsConcreteMembership(p) ==
    /\ p.op = "Solve"
    /\ p.a.op = "Satisfy"
    /\ p.a.a.op = "OfIntegerNumber"
    /\ p.a.a.a.op = "In"
    /\ IsNumberLiteral(p.a.a.a.a)
    /\ ~\E n \in SubExpressions(p.a.a.a.b) : IsVariableLeaf(n)

\* The boolean constant reduction leaves in place of a decided constraint.
Decided(b) ==
    Node1(LogicT, "Boolean",
          ValLeaf(BoolT, "BooleanValue", IF b THEN "True" ELSE "False"))

\* C23: reduction decides In(v, d) for a concrete value v by the set algebra
\* of d: Union(a, b) accepts v exactly when a or b accepts it,
\* Intersection(a, b) exactly when both do, and Complement(Complement(a))
\* exactly when a does.
C23_SetAlgebra ==
    (pc \in {"reduced", "reduced_again"} /\ IsConcreteMembership(program)) =>
        LET v == program.a.a.a.a.val
            d == program.a.a.a.b
            accepted == reduced.a.a = Decided(TRUE)
        IN  /\ d.op = "Union" =>
                /\ reduced.a.a \in {Decided(TRUE), Decided(FALSE)}
                /\ accepted <=> (IntegerMember(v, d.a) \/ IntegerMember(v, d.b))
            /\ d.op = "Intersection" =>
                /\ reduced.a.a \in {Decided(TRUE), Decided(FALSE)}
                /\ accepted <=> (IntegerMember(v, d.a) /\ IntegerMember(v, d.b))
            /\ (d.op = "Complement" /\ d.a.op = "Complement") =>
                /\ reduced.a.a \in {Decided(TRUE), Decided(FALSE)}
                /\ accepted <=> IntegerMember(v, d.a.a)

(***************************************************************************)
(* Programs without variables                                              *)
(***************************************************************************)
\* The constraints of a program: those of its ConstrainAnd nodes and those
\* under its goals.
RECURSIVE Conjuncts(_)
Conjuncts(p) ==
    CASE p.op = "Solve" -> {p.a.a}
      [] p.op = "SolveAnd" -> {p.a.a} \cup Conjuncts(p.b)
      [] p.op = "ConstrainAnd" -> {p.a} \cup Conjuncts(p.b)

\* C24: for a program without variables whose constraints and goals are
\* boolean constants, solve reports Unsatisfiable if and only if one of them
\* is the constant False.
C24_VariableFreeVerdict ==
    (/\ pc = "solved"
     /\ Len(free_variables(program)) = 0
     /\ Conjuncts(program) \subseteq {Decided(TRUE), Decided(FALSE)}) =>
        (HasUnsatisfiable(solutions) <=> Decided(FALSE) \in Conjuncts(program))

(***************************************************************************)
(* get_free on In(e, d)                                                    *)
(***************************************************************************)
\* The goal of p is a constraint In(e, d).
IsMembershipGoal(p) ==
    /\ p.op = "Solve"
    /\ p.a.a.op = "OfIntegerNumber"
    /\ p.a.a.a.op = "In"

\* C25: for In(e, d), get_free lists the variables of e and then those of d:
\* of both bounds of a range, left bound first, of the elements of an
\* ExplicitSet in element order, of both operands of Union, Intersection and
\* Difference and of the operand of Complement, each left to right; Universe
\* and Empty contribute nothing.
C25_GetFreeDomain ==
    (FreeReturned /\ IsMembershipGoal(program)) =>
        LET le == VariableLeaves(program.a.a.a.a)
            ld == VariableLeaves(program.a.a.a.b)
        IN  /\ Len(free) = Len(le) + Len(ld)
            /\ \A i \in 1..Len(le) : free[i].name = le[i].sym
            /\ \A i \in 1..Len(ld) : free[Len(le) + i].name = ld[i].sym
            /\ program.a.a.a.b.op \in {"Universe", "Empty"} => Len(free) = Len(le)

\* free_variables has run on In(x, d) with x a variable and d a range whose
\* left bound is another variable and whose right bound is x again.
C25_Witness ==
    /\ FreeReturned
    /\ IsMembershipGoal(program)
    /\ program.a.a.a.a.op = "IntegerNumberVariable"
    /\ program.a.a.a.b.op \in RangeOps
    /\ Len(free) = 3
    /\ free[1].name # free[2].name
    /\ free[1].name = free[3].name

(***************************************************************************)
(* The attempt generated from the free variables of a program              *)
(***************************************************************************)
\* attempt holds the result of generate_attempt(free_variables(&p))
AttemptReturned == pc \in {"attempt", "applied", "done", "panicked"}

\* C26: generate_attempt(free_variables(p)) succeeds for every program p. It
\* returns Some, with one assignment per free variable; it never returns
\* None and never aborts in the integer sampler.
C26_AttemptSucceeds ==
    /\ pc # "panicked"
    /\ AttemptReturned =>
          /\ attempt.op = "Some"
          /\ Len(attempt.val) = Len(free)

\* generate_attempt has run on the free variables of a program that has
\* boolean and integer variables.
C26_Witness ==
    /\ AttemptReturned
    /\ attempt.op = "Some"
    /\ \E i \in 1..Len(free) : free[i].domain.op = "Boolean"
    /\ \E i \in 1..Len(free) : free[i].domain.op = "Integer"

\* C27: in the attempt generated from free_variables(p), the i-th assignment
\* is Boolean(False) when the i-th variable leaf of p is a BooleanVariable
\* and Integer(Value(0)) when it is an IntegerNumberVariable, whatever the
\* constraints of p are.
C27_AttemptDefaults ==
    (AttemptReturned /\ attempt.op = "Some") =>
        LET leaves == VariableLeaves(program)
        IN  \A i \in 1..Len(attempt.val) :
                /\ i <= Len(leaves)
                /\ attempt.val[i].value =
                      IF leaves[i].op = "BooleanVariable"
                      THEN AssignedValue_Boolean("False")
                      ELSE AssignedValue_Integer(Value(0))

\* An attempt has been generated for a program that constrains an integer
\* variable to equal a number other than 0 and has a boolean variable.
C27_Witness ==
    /\ AttemptReturned
    /\ attempt.op = "Some"
    /\ program.op = "ConstrainAnd"
    /\ program.b.op = "ConstrainAnd"
    /\ program.b.a.op = "OfIntegerNumber"
    /\ program.b.a.a.op = "Equals"
    /\ program.b.a.a.a.op = "IntegerNumberVariable"
    /\ program.b.a.a.b = ValLeaf(IntT, "IntegerNumberValue", Value(1))
    /\ \E i \in 1..Len(attempt.val) : attempt.val[i].value.op = "Boolean"

\* C28 (as claimed): any two assignments of the attempt that carry the same
\* Symbol carry the same AssignedValue, also when the Symbol occurs both as
\* a BooleanVariable and as an IntegerNumberVariable.
C28_AttemptConsistent ==
    (AttemptReturned /\ attempt.op = "Some") =>
        \A i \in 1..Len(attempt.val), j \in 1..Len(attempt.val) :
            attempt.val[i].name = attempt.val[j].name =>
                attempt.val[i].value = attempt.val[j].value

\* C28 (amended): any two assignments of the attempt that carry the same
\* Symbol and stem from variable leaves of the same kind carry the same
\* AssignedValue; when they stem from a BooleanVariable and an
\* IntegerNumberVariable their values differ.
C28_AttemptConsistentPerKind ==
    (AttemptReturned /\ attempt.op = "Some" /\ Len(attempt.val) = Len(free)) =>
        \A i \in 1..Len(attempt.val), j \in 1..Len(attempt.val) :
            attempt.val[i].name = attempt.val[j].name =>
                /\ free[i].domain.op = free[j].domain.op =>
                      attempt.val[i].value = attempt.val[j].value
                /\ free[i].domain.op # free[j].domain.op =>
                      attempt.val[i].value # attempt.val[j].value

\* An attempt has been generated for a program in which one Symbol occurs
\* twice as an IntegerNumberVariable and once as a BooleanVariable.
C28_Witness ==
    /\ AttemptReturned
    /\ attempt.op = "Some"
    /\ \E i \in 1..Len(free), j \in 1..Len(free), k \in 1..Len(free) :
          /\ i < j
          /\ free[i].name = free[j].name
          /\ free[i].name = free[k].name
          /\ free[i].domain.op = "Integer"
          /\ free[j].domain.op = "Integer"
          /\ free[k].domain.op = "Boolean"

(***************************************************************************)
(* apply, reduce and the free variables                                    *)
(***************************************************************************)
\* C30: apply and reduce introduce no free variable. Every Symbol among the
\* free variables of apply(p, a), and of reduce(p), is the Symbol of a free
\* variable of p.
C30_NoNewFreeVariables ==
    /\ pc \in {"applied", "applied_with"} =>
          Names(free_variables(update_program)) \subseteq Names(free_variables(program))
    /\ pc \in {"reduced", "reduced_again"} =>
          Names(free_variables(reduced)) \subseteq Names(free_variables(program))
    /\ pc = "reduced_again" =>
          Names(free_variables(reduced_again)) \subseteq Names(free_variables(program))

\* apply has run on a program with a free variable and an assignment
\* sequence that starts with a Symbol the program does not mention.
C30_Witness ==
    /\ pc = "applied_with"
    /\ Len(state) > 0
    /\ Len(free_variables(program)) > 0
    /\ state[1].name \notin Names(free_variables(program))

====
